---- MODULE Spec2Model ----
(***************************************************************************)
(* Model of the stock demand wizard open.stock.series                      *)
(* (stock_qty_forecast/wizard/open_stock_series.py).                       *)
(*                                                                         *)
(* Dates are day numbers counted from 1970-01-01 (a datetime at midnight   *)
(* and its date are the same number).  Quantities are integers in          *)
(* thousandths of a unit, so that round(value, 2) is visible: a quantity   *)
(* with at most two decimals is a multiple of ten.                         *)
(***************************************************************************)
EXTENDS Integers, Sequences, FiniteSets, TLC

None == "None"

\* A Date field: << >> when it is not set (False), <<d>> when it holds day d.
NoDate == << >>
IsSet(field) == field # NoDate

\* ------------------------------------------------------------------ bounds
\* The stock moves and the wizard's dates lie in FirstDay .. FirstDay+MaxDay.
MaxDay == 3
\* Rows of stock_move that match the wizard's product and location.
MaxMoves == 2
\* Largest number of predicted periods entered on the form.
MaxPeriods == 2

\* ---------------------------------------------------------------- calendar
\* datetime.date(y, m, d) as a day number (proleptic Gregorian calendar).
DaysFromCivil(y, m, d) ==
    LET yy  == IF m <= 2 THEN y - 1 ELSE y
        era == yy \div 400
        yoe == yy - era * 400
        mp  == IF m > 2 THEN m - 3 ELSE m + 9
        doy == (153 * mp + 2) \div 5 + d - 1
        doe == yoe * 365 + yoe \div 4 - yoe \div 100 + doy
    IN  era * 146097 + doe - 719468

\* The (year, month, day) of a day number.
CivilFromDays(z) ==
    LET zz  == z + 719468
        era == zz \div 146097
        doe == zz - era * 146097
        yoe == (doe - doe \div 1460 + doe \div 36524 - doe \div 146096) \div 365
        doy == doe - (365 * yoe + yoe \div 4 - yoe \div 100)
        mp  == (5 * doy + 2) \div 153
        d   == doy - (153 * mp + 2) \div 5 + 1
        m   == IF mp < 10 THEN mp + 3 ELSE mp - 9
        y   == yoe + era * 400 + (IF m <= 2 THEN 1 ELSE 0)
    IN  [year |-> y, month |-> m, day |-> d]

\* date.weekday(): Monday is 0, Sunday is 6 (1970-01-01 was a Thursday).
Weekday(z) == (z + 3) % 7

\* calendar.monthrange(y, m)[1]: the number of days of the month.
MonthRange(y, m) ==
    IF m = 12 THEN 31
    ELSE DaysFromCivil(y, m + 1, 1) - DaysFromCivil(y, m, 1)

\* Day `day` of month number idx (year * 12 + month - 1), clamped to the
\* length of that month.
ClampedDay(idx, day) ==
    DaysFromCivil(idx \div 12, (idx % 12) + 1,
                  IF day > MonthRange(idx \div 12, (idx % 12) + 1)
                  THEN MonthRange(idx \div 12, (idx % 12) + 1)
                  ELSE day)

\* date - relativedelta(months=n): n months back, the day clamped to the
\* length of the month reached.
MinusMonthsOf(c, n) == ClampedDay(c.year * 12 + (c.month - 1) - n, c.day)

MinusMonths(z, n) == MinusMonthsOf(CivilFromDays(z), n)

Intervals == {"day", "week", "month", "quarter", "year"}

\* The last day of month m of year y.
MonthEnd(y, m) == DaysFromCivil(y, m, MonthRange(y, m))

\* DATE_TRUNC for the day z whose civil date is c.
DateTruncOf(interval, z, c) ==
    CASE interval = "day"     -> z
      [] interval = "week"    -> z - Weekday(z)
      [] interval = "month"   -> DaysFromCivil(c.year, c.month, 1)
      [] interval = "quarter" ->
             DaysFromCivil(c.year, 3 * ((c.month - 1) \div 3) + 1, 1)
      [] interval = "year"    -> DaysFromCivil(c.year, 1, 1)

\* PostgreSQL DATE_TRUNC(interval, date): the first day of the bucket the
\* date lies in (weeks start on Monday).
DateTrunc(interval, z) == DateTruncOf(interval, z, CivilFromDays(z))

\* The bin label for the day z whose civil date is c.
BinLabelOf(interval, z, c) ==
    CASE interval = "day"     -> z
      [] interval = "week"    -> z + (6 - Weekday(z))
      [] interval = "month"   -> MonthEnd(c.year, c.month)
      [] interval = "quarter" -> MonthEnd(c.year, 3 * ((c.month - 1) \div 3) + 3)
      [] interval = "year"    -> DaysFromCivil(c.year, 12, 31)

\* The label pandas gives the resample(freq) bin a timestamp falls in, freq
\* being the first letter of the interval: 'd' labels a day by itself, 'w'
\* (W-SUN) a week by its Sunday, 'm', 'q' (Q-DEC) and 'y' (A-DEC) a month,
\* quarter and year by their last day.
BinLabel(interval, z) == BinLabelOf(interval, z, CivilFromDays(z))

\* The label of the bin that follows the bin labelled z.
NextLabel(interval, z) == BinLabel(interval, z + 1)

\* ------------------------------------------------------------ SQL query
\* The days of the stock moves and of the wizard's dates: 2023-12-31 (a
\* Sunday, the end of a week, month, quarter and year) and the days after.
FirstDay == DaysFromCivil(2023, 12, 31)
Days == FirstDay .. (FirstDay + MaxDay)

\* product_qty of the k-th row of stock_move, in thousandths: 5, 7, 9, ...
\* units, so that a sum tells which rows it adds.
ProductQty(k) == 3000 + 2000 * k

RECURSIVE SumQty(_, _)
\* SUM(product_qty) over the rows idx of table.
SumQty(table, idx) ==
    IF idx = {} THEN 0
    ELSE LET i == CHOOSE j \in idx : TRUE
         IN  table[i].qty + SumQty(table, idx \ {i})

RECURSIVE OrderBy(_)
\* ORDER BY: the dates of a set as an ascending sequence.
OrderBy(dates) ==
    IF dates = {} THEN << >>
    ELSE LET lo == CHOOSE d \in dates : \A e \in dates : d <= e
         IN  <<lo>> \o OrderBy(dates \ {lo})

\* WHERE clause 3 of _build_dynamic_clause: the rows of the data series.
\* (The table holds the done moves of the company that clauses 1 and 2
\* select for the wizard's location and product.)
_build_dynamic_clause(table, date_start, date_end) ==
    {i \in 1..Len(table) :
        /\ (IsSet(date_start) => table[i].date >= date_start[1])
        /\ (IsSet(date_end) => table[i].date <= date_end[1])}

\* DATE_TRUNC(interval, date) as date_gr, for every row of the table.
TableGr(table, interval) ==
    [i \in 1..Len(table) |->
        [date_gr |-> DateTrunc(interval, table[i].date), qty |-> table[i].qty]]

\* SUM(product_qty) ... GROUP BY date_gr of the rows `rows`, in the order
\* keys of the groups.
GroupSum(table_gr, rows, keys) ==
    [k \in 1..Len(keys) |->
        [date_gr |-> keys[k],
         qty |-> SumQty(table_gr, {i \in rows : table_gr[i].date_gr = keys[k]})]]

\* GROUP BY date_gr ORDER BY date_gr
GroupBy(table_gr, rows) ==
    GroupSum(table_gr, rows, OrderBy({table_gr[i].date_gr : i \in rows}))

\* cr.execute(query); cr.dictfetchall(): one row per DATE_TRUNC(interval,
\* date) with the summed quantity, ordered by date_gr.
Fetch(table, date_start, date_end, interval) ==
    GroupBy(TableGr(table, interval),
            _build_dynamic_clause(table, date_start, date_end))

\* ------------------------------------------------------------ normalizer
\* if self.date_start and moves[0]["date_gr"] > date_start: moves.append(...)
AddStart(moves, date_start) ==
    IF IsSet(date_start) /\ moves[1].date_gr > date_start[1]
    THEN Append(moves, [date_gr |-> date_start[1], qty |-> 0])
    ELSE moves

\* if self.date_end and moves[-1]["date_gr"] < date_end: moves.append(...)
AddEnd(moves, date_end) ==
    IF IsSet(date_end) /\ moves[Len(moves)].date_gr < date_end[1]
    THEN Append(moves, [date_gr |-> date_end[1], qty |-> 0])
    ELSE moves

\* AddBoundaries without the row at date_start.
AddBoundariesNoStart(moves, date_start, date_end) == AddEnd(moves, date_end)

\* Step 2 of _calculate_data: a zero row at date_start when the first row is
\* later, then a zero row at date_end when the last row is earlier.  Both
\* rows are appended, and the second test reads the last row of the list as
\* it then is.
AddBoundaries(moves, date_start, date_end) ==
    AddEnd(AddStart(moves, date_start), date_end)

\* The smallest and the largest date of a set.
MinDate(dates) == CHOOSE d \in dates : \A e \in dates : d <= e
MaxDate(dates) == CHOOSE d \in dates : \A e \in dates : d >= e

RECURSIVE Labels(_, _, _)
\* The labels of the bins from label lo to label hi.
Labels(interval, lo, hi) ==
    IF lo > hi THEN << >>
    ELSE <<lo>> \o Labels(interval, NextLabel(interval, lo), hi)

\* The label of the bin of every row.
RowLabels(moves, interval) ==
    [i \in 1..Len(moves) |-> BinLabel(interval, moves[i].date_gr)]

\* sum(): one row per bin of idx, holding the sum of the rows of the bin;
\* fillna(0.0): 0 when the bin has no row.
SumBins(moves, labs, idx) ==
    [k \in 1..Len(idx) |->
        [date |-> idx[k],
         qty |-> SumQty(moves, {i \in 1..Len(moves) : labs[i] = idx[k]})]]

\* The bins of rows labelled labs: from the earliest to the latest.
ResampleLabelled(moves, labs, dates, interval) ==
    SumBins(moves, labs, Labels(interval, MinDate(dates), MaxDate(dates)))

\* The row that comes k-th by date (rows of one date in their order).
KthRow(labs, k) ==
    CHOOSE i \in 1..Len(labs) :
        Cardinality({j \in 1..Len(labs) :
            labs[j] < labs[i] \/ (labs[j] = labs[i] /\ j <= i)}) = k

\* Row i under its label.
LabelledRow(moves, labs, i) == [date |-> labs[i], qty |-> moves[i].qty]

\* The rows indexed and sorted by date, neither merged nor completed.
SortedRows(moves, labs) ==
    [k \in 1..Len(moves) |-> LabelledRow(moves, labs, KthRow(labs, k))]

\* Resample without resample(freq).sum().
ResampleNoSum(moves, interval) == SortedRows(moves, RowLabels(moves, interval))

\* DataFrame(moves).set_index(date_gr).resample(freq).sum().fillna(0.0):
\* one row per bin from the bin of the earliest row to the bin of the
\* latest, holding the sum of the rows of the bin (0 when there is none).
Resample(moves, interval) ==
    ResampleLabelled(moves, RowLabels(moves, interval),
                     {BinLabel(interval, moves[i].date_gr) : i \in 1..Len(moves)},
                     interval)

\* -------------------------------------------------------- forecast engine
Methods == {"_ar_method", "_ma_method", "_arima_method", "_sarima_method",
            "_hwes_method", "_ses_method"}

\* The values a fitted statsmodels model may predict, in thousandths:
\* negative, zero, rounding to zero, decimal ties whose float lies above
\* (0.005) and below (0.015) the tie, a tie a float holds exactly (0.125),
\* and values that round down and up.
ModelValues == <<-1500, 0, 4, 5, 15, 125, 1234, 1236>>

\* What the statsmodels library does in a call is not decided by this
\* program: fit or predict raises, or the model predicts the values of
\* ModelValues from position shift on.
Oracles == {[fails |-> TRUE, shift |-> 0]} \cup
           {[fails |-> FALSE, shift |-> s] : s \in 0..(Len(ModelValues) - 1)}

RECURSIVE LabelAfter(_, _, _)
\* The label of the k-th bin after the bin labelled z.
LabelAfter(interval, z, k) ==
    IF k = 0 THEN z ELSE LabelAfter(interval, NextLabel(interval, z), k - 1)

\* model.fit().predict(start, end) on the resampled table: an exception, or
\* a series of end - start + 1 values indexed by the dates that follow the
\* table at its frequency (start is len(data), the first date after it).
FitPredict(data, interval, start, end, oracle) ==
    IF oracle.fails \/ end < start
    THEN [tag |-> "raise"]
    ELSE [tag |-> "series",
          series |-> [k \in 1..(end - start + 1) |->
              [date |-> LabelAfter(interval, data[Len(data)].date,
                                   start - Len(data) + k),
               value |-> ModelValues[((oracle.shift + k - 1) % Len(ModelValues)) + 1]]]]

\* A method without its try/except: the exception leaves the method.
NoExcept(prediction) == prediction

\* try: ... except Exception: prediction = False
ExceptFalse(prediction) ==
    IF prediction.tag = "raise" THEN [tag |-> "bool"] ELSE prediction

_ar_method(data, interval, predicted_periods, oracle) ==
    ExceptFalse(FitPredict(data, interval, Len(data),
                           Len(data) + predicted_periods - 1, oracle))

_ma_method(data, interval, predicted_periods, oracle) ==
    ExceptFalse(FitPredict(data, interval, Len(data),
                           Len(data) + predicted_periods - 1, oracle))

_arima_method(data, interval, predicted_periods, oracle) ==
    ExceptFalse(FitPredict(data, interval, Len(data),
                           Len(data) + predicted_periods - 1, oracle))

_sarima_method(data, interval, predicted_periods, oracle) ==
    ExceptFalse(FitPredict(data, interval, Len(data),
                           Len(data) + predicted_periods - 1, oracle))

_hwes_method(data, interval, predicted_periods, oracle) ==
    ExceptFalse(FitPredict(data, interval, Len(data),
                           Len(data) + predicted_periods - 1, oracle))

_ses_method(data, interval, predicted_periods, oracle) ==
    ExceptFalse(FitPredict(data, interval, Len(data),
                           Len(data) + predicted_periods - 1, oracle))

\* getattr(self, self.forecast_method)(moves_table)
MethodToCall(forecast_method, data, interval, predicted_periods, oracle) ==
    CASE forecast_method = "_ar_method" ->
             _ar_method(data, interval, predicted_periods, oracle)
      [] forecast_method = "_ma_method" ->
             _ma_method(data, interval, predicted_periods, oracle)
      [] forecast_method = "_arima_method" ->
             _arima_method(data, interval, predicted_periods, oracle)
      [] forecast_method = "_sarima_method" ->
             _sarima_method(data, interval, predicted_periods, oracle)
      [] forecast_method = "_hwes_method" ->
             _hwes_method(data, interval, predicted_periods, oracle)
      [] forecast_method = "_ses_method" ->
             _ses_method(data, interval, predicted_periods, oracle)

\* ------------------------------------------------------------- assembler
RECURSIVE DoublingsTo1(_)
\* For a value below 1: the number of doublings that bring it to 1 or more.
DoublingsTo1(value) == IF value >= 1000 THEN 0 ELSE 1 + DoublingsTo1(2 * value)

RECURSIVE HalvingsTo1(_)
\* For a value of 1 or more: the number of halvings that bring it below 2.
HalvingsTo1(value) == IF value < 2000 THEN 0 ELSE 1 + HalvingsTo1(value \div 2)

\* The e for which value * 2^e has the 53 bits of a float's mantissa.
MantissaShift(value) ==
    IF value < 1000 THEN 52 + DoublingsTo1(value) ELSE 52 - HalvingsTo1(value)

RECURSIVE ShiftedRemainder(_, _)
\* (r * 2^e) % 1000, ten doublings at a time (2^10 % 1000 = 24).
ShiftedRemainder(r, e) ==
    IF e = 0 THEN r
    ELSE IF e >= 10 THEN ShiftedRemainder((24 * r) % 1000, e - 10)
    ELSE ShiftedRemainder((2 * r) % 1000, e - 1)

\* The thousandths cut off when the mantissa of value / 1000 is rounded to
\* 53 bits, as thousandths of its last bit.
MantissaRemainder(value) == ShiftedRemainder(value % 1000, MantissaShift(value))

\* A predicted value of `value` thousandths is the float nearest to
\* value / 1000: where that float lies, below (-1), on (0) or above (1) the
\* decimal.
FloatSide(value) ==
    IF MantissaRemainder(value) = 0 THEN 0
    ELSE IF MantissaRemainder(value) < 500 THEN -1 ELSE 1

\* The hundredth nearest to the float on side `side` of q hundredths and r
\* thousandths, as thousandths: a float that holds the tie exactly goes to
\* the even hundredth.
RoundNearest(q, r, side) ==
    10 * (IF r < 5 THEN q
          ELSE IF r > 5 THEN q + 1
          ELSE IF side < 0 THEN q
          ELSE IF side > 0 THEN q + 1
          ELSE IF q % 2 = 0 THEN q ELSE q + 1)

\* round(value, 2) of a positive float given in thousandths: python rounds
\* the exact binary value of the float.
Round2(value) == RoundNearest(value \div 10, value % 10, FloatSide(value))

\* x or 0.0
OrZero(x) == IF x # 0 THEN x ELSE 0

\* ForecastQuantity without round(value, 2).
ForecastQuantityNoRound(value) == IF value > 0 THEN value ELSE 0

\* value > 0 and round(value, 2) or 0.0
ForecastQuantity(value) ==
    IF value > 0 THEN OrZero(Round2(value)) ELSE 0

\* The records of the resampled table.
ResMoves(moves_table) ==
    [k \in 1..Len(moves_table) |->
        [date_datetime |-> moves_table[k].date, quantity |-> moves_table[k].qty]]

\* The records of a forecast series.
ForecastMoves(series) ==
    [k \in 1..Len(series) |->
        [date_datetime |-> series[k].date,
         quantity |-> ForecastQuantity(series[k].value),
         forecast |-> TRUE]]

\* Step 2 of _calculate_data.
MovesTable(moves, wiz) ==
    Resample(AddBoundaries(moves, wiz.date_start, wiz.date_end), wiz.interval)

\* Assemble taking a forecast without a positive value for no forecast.
AssembleFalsyForecast(moves_table, forecast) ==
    IF forecast.tag = "raise" THEN [tag |-> "raise"]
    ELSE IF forecast.tag # "bool"
            /\ \E k \in 1..Len(forecast.series) : forecast.series[k].value > 0
    THEN [tag |-> "list", list |-> ResMoves(moves_table) \o ForecastMoves(forecast.series)]
    ELSE [tag |-> "list", list |-> ResMoves(moves_table)]

\* Assemble with the forecast records put before the history.
AssembleForecastFirst(moves_table, forecast) ==
    IF forecast.tag = "raise" THEN [tag |-> "raise"]
    ELSE IF forecast.tag # "bool"
    THEN [tag |-> "list", list |-> ForecastMoves(forecast.series) \o ResMoves(moves_table)]
    ELSE [tag |-> "list", list |-> ResMoves(moves_table)]

\* Steps 3 and 4 of _calculate_data on a non-empty fetch.
Assemble(moves_table, forecast) ==
    IF forecast.tag = "raise" THEN [tag |-> "raise"]
    ELSE IF forecast.tag # "bool"
    THEN [tag |-> "list", list |-> ResMoves(moves_table) \o ForecastMoves(forecast.series)]
    ELSE [tag |-> "list", list |-> ResMoves(moves_table)]

\* Whether fit or predict raises inside the forecast method called on data.
FitRaises(data, interval, predicted_periods, oracle) ==
    FitPredict(data, interval, Len(data),
               Len(data) + predicted_periods - 1, oracle).tag = "raise"

\* What a call of _calculate_data did: the value it returned (False, or the
\* list of records), the forecast it obtained (tag "none" when no method was
\* called) and whether the library raised inside the method.
NoData == [ret |-> [tag |-> "bool"], forecast |-> [tag |-> "none"], raised |-> FALSE]

\* Step 4 of _calculate_data.
Step4(moves_table, forecast, raised) ==
    [ret |-> Assemble(moves_table, forecast), forecast |-> forecast,
     raised |-> raised]

\* Steps 3 and 4 of _calculate_data.
Step3(moves_table, wiz, oracle) ==
    Step4(moves_table,
          MethodToCall(wiz.forecast_method, moves_table, wiz.interval,
                       wiz.predicted_periods, oracle),
          FitRaises(moves_table, wiz.interval, wiz.predicted_periods, oracle))

\* Step 2 on taking a single fetched row for no data.
Step2OneRowNoData(moves, wiz, oracle) ==
    IF Len(moves) <= 1 THEN NoData
    ELSE Step3(MovesTable(moves, wiz), wiz, oracle)

\* Steps 2 to 4 of _calculate_data on the fetched rows.
Step2(moves, wiz, oracle) ==
    IF moves = << >> THEN NoData
    ELSE Step3(MovesTable(moves, wiz), wiz, oracle)

\* _calculate_data
_calculate_data(table, wiz, oracle) ==
    Step2(Fetch(table, wiz.date_start, wiz.date_end, wiz.interval), wiz, oracle)

\* ------------------------------------------------------------ the wizard
VARIABLES
    stock_move,   \* the rows of stock_move the wizard's product and location select
    wizard,       \* the fields of the open.stock.series form
    called,       \* the button pressed last, None while the form is edited
    action,       \* the type of the action that button returned
    res_moves,    \* what _calculate_data returned in that call
    forecast,     \* what the forecast method returned in that call
    raised,       \* whether statsmodels raised inside the method in that call
    demands,      \* the report.stock.demand records that call created
    attachment    \* the rows of the xlsx attachment that call created, if any

vars == <<stock_move, wizard, called, action, res_moves, forecast, raised,
          demands, attachment>>

\* fields.Date.today(): the day after the last day of the data.
Today == FirstDay + MaxDay + 1

\* ir.config_parameter stock_qty_predicted_periods (its default).
stock_qty_predicted_periods == 1

\* _sql_constraints: a CHECK passes when its expression is true or NULL.
predicted_periods_check(wiz) == wiz.predicted_periods > 0

\* dates_check as check (date_end>=date_start).
DatesCheckNotBefore(wiz) ==
    IF IsSet(wiz.date_end) /\ IsSet(wiz.date_start)
    THEN wiz.date_end[1] >= wiz.date_start[1]
    ELSE TRUE

dates_check(wiz) ==
    IF IsSet(wiz.date_end) /\ IsSet(wiz.date_start)
    THEN wiz.date_end[1] > wiz.date_start[1]
    ELSE TRUE

_sql_constraints(wiz) == predicted_periods_check(wiz) /\ dates_check(wiz)

\* No button call is in progress: the form is being edited.
NoCall ==
    /\ called' = None
    /\ action' = None
    /\ res_moves' = [tag |-> "none"]
    /\ forecast' = [tag |-> "none"]
    /\ raised' = FALSE
    /\ demands' = << >>
    /\ attachment' = << >>

\* The names of the products the wizard is opened for, as sequences of
\* characters: of 15 and of 16 characters, and one holding "/".
DefaultProduct ==
    <<"O", "f", "f", "i", "c", "e", " ", "C", "h", "a", "i", "r", " ", "X", "L">>

ProductNames ==
    {DefaultProduct,
     <<"O", "f", "f", "i", "c", "e", " ", "C", "h", "a", "i", "r", " ", "X", "X", "L">>,
     <<"B", "o", "l", "t", " ", "3", "/", "8">>}

\* fields.Date.today() formatted into the file name: YYYY-MM-DD.
TodayChars == <<"2", "0", "2", "4", "-", "0", "1", "-", "0", "4">>

\* u"{}#{}.xlsx".format(name, fields.Date.today())
xlsx_name(name) == name \o <<"#">> \o TodayChars \o <<".", "x", "l", "s", "x">>

\* The characters xlsxwriter refuses in a worksheet name.
InvalidSheetChars == {"[", "]", ":", "*", "?", "/", "\\"}

\* workbook.add_worksheet(name) returns a worksheet: the name has at most
\* 31 characters and none of the refused ones; otherwise it raises.
add_worksheet(name) ==
    /\ Len(name) <= 31
    /\ \A k \in 1..Len(name) : name[k] \notin InvalidSheetChars

Init ==
    /\ stock_move = << >>
    /\ wizard = [date_start |-> NoDate, date_end |-> NoDate, interval |-> "month",
                 forecast_method |-> "_ar_method",
                 predicted_periods |-> stock_qty_predicted_periods,
                 product_name |-> DefaultProduct]
    /\ called = None
    /\ action = None
    /\ res_moves = [tag |-> "none"]
    /\ forecast = [tag |-> "none"]
    /\ raised = FALSE
    /\ demands = << >>
    /\ attachment = << >>

\* A done stock move of the wizard's product leaves the wizard's location.
InsertMove ==
    /\ Len(stock_move) < MaxMoves
    /\ called = None
    /\ \E d \in Days :
           stock_move' = Append(stock_move,
                                [date |-> d, qty |-> ProductQty(Len(stock_move) + 1)])
    /\ NoCall
    /\ UNCHANGED wizard

\* int(3 * (int(month - 1) / 3 + 1)) for month 1..12, as Python 3 (true
\* division on floats) computes it.
LastQuarterMonth == <<3, 4, 5, 6, 6, 8, 9, 10, 11, 12, 13, 13>>

\* date(year, last_quarter_month, monthrange(...)[1]); date() raises when
\* the month is over 12.
QuarterEnd(lq) ==
    IF LastQuarterMonth[lq.month] > 12 THEN NoDate
    ELSE <<MonthEnd(lq.year, LastQuarterMonth[lq.month])>>

\* The month end of the civil date c.
MonthEndOf(c) == MonthEnd(c.year, c.month)

\* The date _onchange_interval writes to date_end: the last day of the
\* interval before today's.  NoDate when date() raises.
PreviousPeriodEnd(interval, today) ==
    CASE interval = "day"     -> <<today - 1>>
      [] interval = "week"    -> <<today - (Weekday(today) + 1)>>
      [] interval = "month"   -> <<MonthEndOf(CivilFromDays(MinusMonths(today, 1)))>>
      [] interval = "quarter" -> QuarterEnd(CivilFromDays(MinusMonths(today, 3)))
      [] interval = "year"    ->
             <<DaysFromCivil(CivilFromDays(MinusMonths(today, 12)).year, 12, 31)>>

\* The form after _onchange_interval with interval i: date_end is written
\* unless date() raised.
WithInterval(wiz, i, res_date) ==
    IF res_date = NoDate
    THEN [wiz EXCEPT !.interval = i]
    ELSE [wiz EXCEPT !.interval = i, !.date_end = res_date]

\* The user picks an interval; _onchange_interval sets date_end.
_onchange_interval ==
    /\ called = None
    /\ \E i \in Intervals :
          wizard' = WithInterval(wizard, i, PreviousPeriodEnd(i, Today))
    /\ NoCall
    /\ UNCHANGED stock_move

\* The value _onchange_forecast_method writes to predicted_periods.
OnchangePeriods(forecast_method) ==
    IF forecast_method \in {"_hwes_method", "_ses_method"}
    THEN 1
    ELSE stock_qty_predicted_periods

\* The user picks a forecast method; _onchange_forecast_method sets
\* predicted_periods.
_onchange_forecast_method ==
    /\ called = None
    /\ \E m \in Methods :
          wizard' = [wizard EXCEPT !.forecast_method = m,
                                   !.predicted_periods = OnchangePeriods(m)]
    /\ NoCall
    /\ UNCHANGED stock_move

\* The wizard is opened for a product (stats_for, product_id, template_id),
\* before any of its stock moves is read.
SetProduct ==
    /\ called = None
    /\ stock_move = << >>
    /\ \E name \in ProductNames : wizard' = [wizard EXCEPT !.product_name = name]
    /\ NoCall
    /\ UNCHANGED stock_move

\* The user types into the fields that have no onchange method.
SetPredictedPeriods ==
    /\ called = None
    /\ \E n \in 0..MaxPeriods : wizard' = [wizard EXCEPT !.predicted_periods = n]
    /\ NoCall
    /\ UNCHANGED stock_move

SetDateStart ==
    /\ called = None
    /\ \E d \in {<<z>> : z \in Days} \cup {NoDate} :
           wizard' = [wizard EXCEPT !.date_start = d]
    /\ NoCall
    /\ UNCHANGED stock_move

SetDateEnd ==
    /\ called = None
    /\ \E d \in {<<z>> : z \in Days} \cup {NoDate} :
           wizard' = [wizard EXCEPT !.date_end = d]
    /\ NoCall
    /\ UNCHANGED stock_move

\* `not moves` of the value _calculate_data returned.
NotMoves(ret) == ret.tag = "bool" \/ (ret.tag = "list" /\ ret.list = << >>)

\* self.env["report.stock.demand"].create(moves)
CreateDemands(ret) == ret.list

\* The first index of moves holding the latest date.
FirstLatest(moves) ==
    CHOOSE j \in 1..Len(moves) :
        /\ \A k \in 1..Len(moves) : moves[k].date_datetime <= moves[j].date_datetime
        /\ \A k \in 1..(j - 1) : moves[k].date_datetime < moves[j].date_datetime

\* moves without its i-th element.
Without(moves, i) == SubSeq(moves, 1, i - 1) \o SubSeq(moves, i + 1, Len(moves))

RECURSIVE SortedReverse(_)
RECURSIVE TakeLatest(_, _)
TakeLatest(moves, i) == <<moves[i]>> \o SortedReverse(Without(moves, i))

\* sorted(moves, key=date_datetime, reverse=True): descending by date, equal
\* dates in their original order.
SortedReverse(moves) ==
    IF moves = << >> THEN << >> ELSE TakeLatest(moves, FirstLatest(moves))

\* move.get("forecast")
GetForecast(move) == "forecast" \in DOMAIN move /\ move.forecast

\* worksheet.write(row, ...): one row per record from row 1 on, the
\* forecast rows in the red_ styles.
WriteRows(moves) ==
    [k \in 1..Len(moves) |->
        [row |-> k, date |-> moves[k].date_datetime,
         quantity |-> moves[k].quantity, red |-> GetForecast(moves[k])]]

\* Step 3 of action_export_to_xlsx without the sorted(..., reverse=True).
WorksheetRowsUnsorted(ret) == WriteRows(ret.list)

\* Step 3 of action_export_to_xlsx.
WorksheetRows(ret) == WriteRows(SortedReverse(ret.list))

\* The form is saved and fails a CHECK of _sql_constraints: the database
\* raises and the button's method is not called.
Rejected(button) ==
    /\ called = None
    /\ ~_sql_constraints(wizard)
    /\ called' = button
    /\ action' = "IntegrityError"
    /\ res_moves' = [tag |-> "none"]
    /\ forecast' = [tag |-> "none"]
    /\ raised' = FALSE
    /\ demands' = << >>
    /\ attachment' = << >>
    /\ UNCHANGED <<stock_move, wizard>>

\* The call of a button recorded: what _calculate_data did in it.
Calculated(button, data) ==
    /\ called' = button
    /\ res_moves' = data.ret
    /\ forecast' = data.forecast
    /\ raised' = data.raised

\* action_calculate after moves = self._calculate_data().
CalculateReturn(moves) ==
    /\ attachment' = << >>
    /\ IF moves.tag = "raise"
       THEN action' = "Exception" /\ demands' = << >>
       ELSE IF NotMoves(moves)
       THEN action' = "display_notification" /\ demands' = << >>
       ELSE action' = "ir.actions.act_window" /\ demands' = CreateDemands(moves)

\* action_export_to_xlsx after moves = self._calculate_data().
ExportReturn(moves) ==
    /\ demands' = << >>
    /\ IF moves.tag = "raise"
       THEN action' = "Exception" /\ attachment' = << >>
       ELSE IF NotMoves(moves)
       THEN action' = "display_notification" /\ attachment' = << >>
       ELSE action' = "ir.actions.act_url" /\ attachment' = WorksheetRows(moves)

CalculateWith(data) ==
    Calculated("action_calculate", data) /\ CalculateReturn(data.ret)

ExportWith(data) ==
    Calculated("action_export_to_xlsx", data) /\ ExportReturn(data.ret)

\* add_worksheet raised: the exception leaves action_export_to_xlsx before
\* _calculate_data is called.
WorksheetRaises ==
    /\ called' = "action_export_to_xlsx"
    /\ action' = "Exception"
    /\ res_moves' = [tag |-> "none"]
    /\ forecast' = [tag |-> "none"]
    /\ raised' = FALSE
    /\ demands' = << >>
    /\ attachment' = << >>

\* action_export_to_xlsx from the worksheet on.
ExportSheet(sheet_name, table, wiz, oracle) ==
    IF add_worksheet(sheet_name)
    THEN ExportWith(_calculate_data(table, wiz, oracle))
    ELSE WorksheetRaises

action_calculate ==
    \/ Rejected("action_calculate")
    \/ /\ called = None
       /\ _sql_constraints(wizard)
       /\ \E oracle \in Oracles :
             CalculateWith(_calculate_data(stock_move, wizard, oracle))
       /\ UNCHANGED <<stock_move, wizard>>

action_export_to_xlsx ==
    \/ Rejected("action_export_to_xlsx")
    \/ /\ called = None
       /\ _sql_constraints(wizard)
       /\ \E oracle \in Oracles :
             ExportSheet(xlsx_name(wizard.product_name), stock_move, wizard, oracle)
       /\ UNCHANGED <<stock_move, wizard>>

\* The client has handled the returned action: the form is edited again.
Dismiss ==
    /\ called # None
    /\ NoCall
    /\ UNCHANGED <<stock_move, wizard>>

Next ==
    \/ Dismiss
    \/ InsertMove
    \/ SetProduct
    \/ _onchange_interval
    \/ _onchange_forecast_method
    \/ SetPredictedPeriods
    \/ SetDateStart
    \/ SetDateEnd
    \/ action_calculate
    \/ action_export_to_xlsx

Spec == Init /\ [][Next]_vars

\* The user edits the data series (the dates and the interval) and leaves
\* the forecast fields at their defaults.
NextSeries ==
    \/ Dismiss
    \/ InsertMove
    \/ _onchange_interval
    \/ SetDateStart
    \/ SetDateEnd
    \/ action_calculate
    \/ action_export_to_xlsx

SpecSeries == Init /\ [][NextSeries]_vars

\* The user edits the forecast fields (the interval, the method and the
\* number of periods); date_end is the one _onchange_interval sets.
NextForecast ==
    \/ Dismiss
    \/ InsertMove
    \/ _onchange_interval
    \/ _onchange_forecast_method
    \/ SetPredictedPeriods
    \/ action_calculate
    \/ action_export_to_xlsx

SpecForecast == Init /\ [][NextForecast]_vars

\* The user edits the fields the constraints read (the dates and the number
\* of periods) and leaves the interval and the method at their defaults.
NextRequest ==
    \/ Dismiss
    \/ InsertMove
    \/ SetPredictedPeriods
    \/ SetDateStart
    \/ SetDateEnd
    \/ action_calculate
    \/ action_export_to_xlsx

SpecRequest == Init /\ [][NextRequest]_vars

\* The wizard is opened for any of the products; the user edits date_start
\* and the number of periods and leaves the other fields at their defaults.
NextExport ==
    \/ Dismiss
    \/ InsertMove
    \/ SetProduct
    \/ SetPredictedPeriods
    \/ SetDateStart
    \/ action_calculate
    \/ action_export_to_xlsx

SpecExport == Init /\ [][NextExport]_vars

\* ------------------------------------------------------------ properties
\* A button's method was called in the button call the state shows.
Pressed == called # None /\ action # "IntegrityError"

\* _calculate_data ran in the button call the state shows.
Ran == Pressed /\ res_moves # [tag |-> "none"]

\* The rows of stock_move whose date lies in the wizard's data series.
InSeries ==
    {i \in 1..Len(stock_move) :
        /\ \A d \in {wizard.date_start[k] : k \in DOMAIN wizard.date_start} :
               stock_move[i].date >= d
        /\ \A d \in {wizard.date_end[k] : k \in DOMAIN wizard.date_end} :
               stock_move[i].date <= d}

\* The raw buckets of the request.
RawBuckets ==
    Fetch(stock_move, wizard.date_start, wizard.date_end, wizard.interval)

\* The records of the returned list without and with the forecast flag.
History == SelectSeq(res_moves.list, LAMBDA m : ~GetForecast(m))
Forecasts == SelectSeq(res_moves.list, LAMBDA m : GetForecast(m))

RECURSIVE SeqSum(_)
SeqSum(q) == IF q = << >> THEN 0 ELSE Head(q) + SeqSum(Tail(q))

Jan2024(d) == DaysFromCivil(2024, 1, d)

\* C1: _calculate_data returns False exactly when no row of stock_move lies
\* in the data series; otherwise it returns a non-empty list of records.
C1_NoDataIffEmpty ==
    Ran => /\ (res_moves.tag = "bool") <=> (InSeries = {})
           /\ InSeries # {} => res_moves.tag = "list" /\ Len(res_moves.list) > 0

\* A request whose data series holds a single bucket returned a list.
C1_Witness ==
    /\ Ran
    /\ Len(RawBuckets) = 1
    /\ res_moves.tag = "list"
    /\ Len(res_moves.list) > 0

\* The rows step 2 of _calculate_data added to the raw buckets.
Synthetic ==
    LET all == AddBoundaries(RawBuckets, wizard.date_start, wizard.date_end)
    IN  {all[k].date_gr : k \in (Len(RawBuckets) + 1)..Len(all)}

\* C2: the historical records are strictly ascending by date and
\* contiguous: every record is dated by a bucket of the interval, and the
\* days after a record up to the next record all lie in the next record's
\* bucket (no gap, no duplicate).
C2_HistoryContiguous ==
    (Ran /\ res_moves.tag = "list") =>
        LET h == History
        IN  /\ Len(h) >= 1
            /\ \A k \in 1..Len(h) :
                   BinLabel(wizard.interval, h[k].date_datetime) = h[k].date_datetime
            /\ \A k \in 1..(Len(h) - 1) :
                   /\ h[k].date_datetime < h[k + 1].date_datetime
                   /\ \A z \in (h[k].date_datetime + 1)..h[k + 1].date_datetime :
                          BinLabel(wizard.interval, z) = h[k + 1].date_datetime

\* A synthetic boundary row fell in the bucket of a raw bucket, and the
\* history holds several records.
C2_Witness ==
    /\ Ran
    /\ res_moves.tag = "list"
    /\ Len(History) >= 2
    /\ \E s \in Synthetic : \E k \in 1..Len(RawBuckets) :
           BinLabel(wizard.interval, s) = BinLabel(wizard.interval, RawBuckets[k].date_gr)

\* C3: the history spans from the bucket of min(first raw bucket,
\* date_start) to the bucket of max(last raw bucket, date_end); the quantity
\* of a record is the sum of the raw buckets that fall in its bucket (0 when
\* none does), so the total is the raw total; and the raw buckets
\* (2024-01-01, 5), (2024-01-03, 7) by day with date_start 2024-01-01 and
\* date_end 2024-01-03 give (01-01, 5), (01-02, 0), (01-03, 7).
C3_ReferenceNormalization ==
    (Ran /\ res_moves.tag = "list") =>
        LET h   == History
            raw == RawBuckets
            los == {raw[1].date_gr} \cup
                   {wizard.date_start[k] : k \in DOMAIN wizard.date_start}
            his == {raw[Len(raw)].date_gr} \cup
                   {wizard.date_end[k] : k \in DOMAIN wizard.date_end}
            lo  == CHOOSE d \in los : \A e \in los : d <= e
            hi  == CHOOSE d \in his : \A e \in his : d >= e
        IN  /\ h[1].date_datetime = BinLabel(wizard.interval, lo)
            /\ h[Len(h)].date_datetime = BinLabel(wizard.interval, hi)
            /\ \A k \in 1..Len(h) :
                   h[k].quantity =
                       SumQty(raw, {i \in 1..Len(raw) :
                           BinLabel(wizard.interval, raw[i].date_gr) = h[k].date_datetime})
            /\ SeqSum([k \in 1..Len(h) |-> h[k].quantity]) =
                   SeqSum([i \in 1..Len(raw) |-> raw[i].qty])
            /\ (/\ raw = <<[date_gr |-> Jan2024(1), qty |-> 5000],
                           [date_gr |-> Jan2024(3), qty |-> 7000]>>
                /\ wizard.interval = "day"
                /\ wizard.date_start = <<Jan2024(1)>>
                /\ wizard.date_end = <<Jan2024(3)>>)
               => h = <<[date_datetime |-> Jan2024(1), quantity |-> 5000],
                        [date_datetime |-> Jan2024(2), quantity |-> 0],
                        [date_datetime |-> Jan2024(3), quantity |-> 7000]>>

\* The scenario of the claim ran.
C3_Witness ==
    /\ Ran
    /\ res_moves.tag = "list"
    /\ RawBuckets = <<[date_gr |-> Jan2024(1), qty |-> 5000],
                      [date_gr |-> Jan2024(3), qty |-> 7000]>>
    /\ wizard.interval = "day"
    /\ wizard.date_start = <<Jan2024(1)>>
    /\ wizard.date_end = <<Jan2024(3)>>
    /\ Len(History) = 3

\* C4 (as the claim states it): an available forecast gives predicted_periods
\* forecast records for the AR, ARDL, ARIMA and SARIMA methods and exactly
\* one for the HWES and SES methods.
C4_HwesSesOnePoint ==
    (Ran /\ res_moves.tag = "list" /\ forecast.tag = "series") =>
        Len(Forecasts) =
            IF wizard.forecast_method \in {"_hwes_method", "_ses_method"}
            THEN 1
            ELSE wizard.predicted_periods

\* C5: when fit or predict raises inside the forecast method, the method
\* returns False, no exception leaves _calculate_data or the button, and the
\* returned list is the history alone.
C5_FitFailureHistoryOnly ==
    Ran => /\ action # "Exception"
           /\ res_moves.tag # "raise"
           /\ raised => /\ forecast = [tag |-> "bool"]
                        /\ res_moves.tag = "list"
                        /\ Len(res_moves.list) >= 1
                        /\ Forecasts = << >>
                        /\ History = res_moves.list

\* The ARIMA fit raised on a series of two buckets and the history alone
\* came back.
C5_Witness ==
    /\ Ran
    /\ raised
    /\ wizard.forecast_method = "_arima_method"
    /\ res_moves.tag = "list"
    /\ Len(res_moves.list) = 2
    /\ Forecasts = << >>

\* C6: every forecast record has a quantity >= 0 with at most two decimals
\* (a multiple of ten thousandths): 0 for a model value that is negative,
\* zero or rounds to zero, and the nearest hundredth for a positive one.
C6_ForecastClampedRounded ==
    (Ran /\ res_moves.tag = "list" /\ forecast.tag = "series") =>
        /\ Len(Forecasts) = Len(forecast.series)
        /\ \A k \in 1..Len(Forecasts) :
              LET q == Forecasts[k].quantity
                  v == forecast.series[k].value
              IN  /\ q >= 0
                  /\ q % 10 = 0
                  /\ v <= 0 => q = 0
                  /\ v > 0 => (q - v <= 5 /\ v - q <= 5)

\* A forecast held a negative value and a positive value with three
\* decimals.
C6_Witness ==
    /\ Ran
    /\ res_moves.tag = "list"
    /\ forecast.tag = "series"
    /\ \E k \in 1..Len(forecast.series) : forecast.series[k].value < 0
    /\ \E k \in 1..Len(forecast.series) :
           /\ forecast.series[k].value > 0
           /\ forecast.series[k].value % 10 # 0
           /\ Forecasts[k].quantity # forecast.series[k].value

\* C7: with a forecast, the returned list is the historical records
\* followed by the forecast records, strictly ascending by date; the
\* forecast records are flagged and dated after the last historical record.
C7_HistoryThenForecast ==
    (Ran /\ res_moves.tag = "list" /\ forecast.tag = "series") =>
        LET l == res_moves.list
        IN  /\ l = History \o Forecasts
            /\ Len(History) >= 1
            /\ Len(Forecasts) = Len(forecast.series)
            /\ \A k \in 1..(Len(l) - 1) : l[k].date_datetime < l[k + 1].date_datetime
            /\ \A k \in 1..Len(Forecasts) :
                   /\ Forecasts[k].forecast = TRUE
                   /\ Forecasts[k].date_datetime > History[Len(History)].date_datetime
            /\ \A k \in 1..Len(History) : "forecast" \notin DOMAIN History[k]

\* Several historical records were followed by several forecast records.
C7_Witness ==
    /\ Ran
    /\ res_moves.tag = "list"
    /\ forecast.tag = "series"
    /\ Len(History) >= 2
    /\ Len(Forecasts) >= 2

\* A request that violates an invariant of the request.
InvalidRequest(wiz) ==
    \/ wiz.predicted_periods <= 0
    \/ \E s \in {wiz.date_start[k] : k \in DOMAIN wiz.date_start} :
       \E e \in {wiz.date_end[k] : k \in DOMAIN wiz.date_end} : e <= s

\* C8: pressing a button on a request with predicted_periods <= 0, or with
\* both dates and date_end <= date_start, is rejected: the fields are left
\* as they were and _calculate_data does not run.
C8_InvalidRejected ==
    [][(called = None /\ called' # None /\ InvalidRequest(wizard)) =>
          /\ wizard' = wizard
          /\ action' = "IntegrityError"
          /\ res_moves' = [tag |-> "none"]
          /\ forecast' = [tag |-> "none"]
          /\ demands' = << >>
          /\ attachment' = << >>]_vars

\* A button was pressed with date_end equal to date_start and rejected.
C8_Witness ==
    /\ called # None
    /\ IsSet(wizard.date_start)
    /\ wizard.date_end = wizard.date_start
    /\ wizard.predicted_periods > 0
    /\ Len(stock_move) > 0
    /\ action = "IntegrityError"

\* C9: when no row lies in the data series, no forecast method is called
\* and both buttons, once their method is called, return the
\* display_notification action, creating no report.stock.demand record and
\* no attachment.
C9_NoDataNotification ==
    (Pressed /\ InSeries = {}) =>
        /\ res_moves = [tag |-> "bool"]
        /\ forecast = [tag |-> "none"]
        /\ ~raised
        /\ action = "display_notification"
        /\ demands = << >>
        /\ attachment = << >>

\* C11: when a button runs with forecast_method _hwes_method or _ses_method,
\* predicted_periods is 1, whatever edits of forecast_method and
\* predicted_periods came before.
C11_HwesSesPinned ==
    (Ran /\ wizard.forecast_method \in {"_hwes_method", "_ses_method"}) =>
        wizard.predicted_periods = 1

\* C12: the export writes one row per record of the list _calculate_data
\* returned, at rows 1, 2, ... in strictly descending date order (the k-th
\* row is the k-th record from the end, so the forecast rows come first),
\* while the returned list itself, which the report button passes to
\* create(), is strictly ascending by date.
C12_ExportDescending ==
    /\ (Ran /\ res_moves.tag = "list") =>
           \A k \in 1..(Len(res_moves.list) - 1) :
               res_moves.list[k].date_datetime < res_moves.list[k + 1].date_datetime
    /\ (called = "action_calculate" /\ action = "ir.actions.act_window") =>
           demands = res_moves.list
    /\ (called = "action_export_to_xlsx" /\ Ran /\ res_moves.tag = "list") =>
           LET n == Len(res_moves.list)
           IN  /\ action = "ir.actions.act_url"
               /\ Len(attachment) = n
               /\ \A k \in 1..n :
                      /\ attachment[k].row = k
                      /\ attachment[k].date = res_moves.list[n + 1 - k].date_datetime
                      /\ attachment[k].quantity = res_moves.list[n + 1 - k].quantity
                      /\ attachment[k].red = GetForecast(res_moves.list[n + 1 - k])
               /\ \A k \in 1..(n - 1) : attachment[k].date > attachment[k + 1].date
               /\ \A j, k \in 1..n : (j < k /\ attachment[k].red) => attachment[j].red

\* The export wrote two forecast rows above two historical rows.
C12_Witness ==
    /\ called = "action_export_to_xlsx"
    /\ action = "ir.actions.act_url"
    /\ Len(attachment) = 4
    /\ attachment[1].red /\ attachment[2].red
    /\ ~attachment[3].red /\ ~attachment[4].red
    /\ attachment[1].row = 1
    /\ attachment[1].date > attachment[4].date

\* C13: a forecast series whose values are all zero or negative still gives
\* one forecast-flagged record of quantity 0 per point, dated as the point;
\* the returned list holds no forecast record exactly when the method
\* returned False.
C13_ZeroForecastKept ==
    (Ran /\ res_moves.tag = "list") =>
        /\ (Forecasts = << >>) <=> (forecast = [tag |-> "bool"])
        /\ (/\ forecast.tag = "series"
            /\ \A k \in 1..Len(forecast.series) : forecast.series[k].value <= 0) =>
               /\ Len(forecast.series) >= 1
               /\ Len(Forecasts) = Len(forecast.series)
               /\ \A k \in 1..Len(Forecasts) :
                      /\ Forecasts[k].forecast = TRUE
                      /\ Forecasts[k].quantity = 0
                      /\ Forecasts[k].date_datetime = forecast.series[k].date

\* A method predicted a negative value and a zero, and two forecast records
\* of quantity 0 came back.
C13_Witness ==
    /\ Ran
    /\ res_moves.tag = "list"
    /\ forecast.tag = "series"
    /\ Len(forecast.series) = 2
    /\ forecast.series[1].value < 0
    /\ forecast.series[2].value = 0
    /\ Len(Forecasts) = 2
    /\ Forecasts[1].quantity = 0 /\ Forecasts[2].quantity = 0

====
